---------------------------- MODULE Spec2Model ----------------------------
(***************************************************************************)
(* Model of langflow/base/tools/component_tool.py.                         *)
(*                                                                         *)
(* The specifications share the variables below:                           *)
(*   Spec      - one tool function (sync_function or async_wrapper, as     *)
(*               built by _build_output_function) is called repeatedly,    *)
(*               from a context with or without a running event loop;      *)
(*   SpecTools - ComponentToolkit.get_tools runs over a component's        *)
(*               outputs, one loop iteration per step;                     *)
(*   SpecDesc  - build_description as a pure function of its inputs;       *)
(*   SpecName  - _format_tool_name alone and inside get_tools;             *)
(*   SpecType  - _get_input_type as a pure function of an input;           *)
(*   SpecLive  - Spec with a calling thread that keeps running;            *)
(*   SpecConc  - Spec with a concurrent call writing to the component;     *)
(*   SpecSet   - Spec with a component.set that may raise.                 *)
(*                                                                         *)
(* asyncio is modelled with the semantics of the CPython standard library: *)
(* get_running_loop raises RuntimeError when no loop runs in the thread,   *)
(* run_until_complete raises RuntimeError on a loop that is already        *)
(* running, and asyncio.run raises RuntimeError when called while a loop   *)
(* runs in the thread; otherwise asyncio.run creates a loop, runs the      *)
(* coroutine, cancels what is left on the loop and closes it.              *)
(*                                                                         *)
(* Strings that are compared or rewritten character by character are       *)
(* sequences of code points.                                               *)
(***************************************************************************)
EXTENDS Integers, Sequences, FiniteSets, TLC

VARIABLES
    \* ---- the component's live argument state and one tool call ----
    args,          \* component state written by component.set
    pc,            \* position of the tool call
    kind,          \* "sync" | "async": which wrapper was built
    kwargs,        \* keyword arguments of the call
    argsBefore,    \* component state when the call was made
    ambient,       \* TRUE iff an event loop is running in the calling thread
    loopVar,       \* local variable `loop`: "unbound" | "ambient"
    transient,     \* loop owned by asyncio.run: "none" | "running" | "closed"
    loopsCreated,  \* event loops constructed during the call
    tasks,         \* tasks known to the loops
    beh,           \* what the wrapped method does when it runs
    started,       \* how many times the wrapped method began executing
    observed,      \* argument state the method saw when it began
    spawned,       \* sub-tasks the method has scheduled so far
    retval,        \* value in flight to the caller
    exc,           \* exception in flight
    schedErrs,     \* scheduler errors raised during the call
    methodExc,     \* exception the method body raised
    outcome,       \* how the call left the tool function
    phases,        \* the phases the call has gone through, in order
    \* ---- a concurrent call on the same component ----
    otherKw,       \* keyword arguments the concurrent call has written
    otherWhen,     \* when it wrote: "none" | "before_set" | "after_set"
    \* ---- ComponentToolkit.get_tools ----
    component,     \* the component's metadata
    gpc,           \* position of get_tools
    idx,           \* index of the output the for loop is at
    tools,         \* the local list `tools`
    warnings,      \* logger.warning records
    gresult,       \* what get_tools delivered to its caller
    \* ---- build_description alone ----
    dpc,
    dcomp,
    dout,
    dresult,
    \* ---- _format_tool_name alone ----
    npc,
    ninput,
    nresult,
    nresult2,
    \* ---- _get_input_type alone ----
    tpc,
    tinput,
    tresult

callVars == <<args, pc, kind, kwargs, argsBefore, ambient, loopVar, transient,
              loopsCreated, tasks, beh, started, observed, spawned, retval,
              exc, schedErrs, methodExc, outcome, phases>>
concVars == <<otherKw, otherWhen>>
toolVars == <<component, gpc, idx, tools, warnings, gresult>>
descVars == <<dpc, dcomp, dout, dresult>>
nameVars == <<npc, ninput, nresult, nresult2>>
typeVars == <<tpc, tinput, tresult>>
vars == <<callVars, concVars, toolVars, descVars, nameVars, typeVars>>

-----------------------------------------------------------------------------
(* Bounds *)

MaxSpawn == 2        \* sub-tasks one method run schedules
MaxBackground == 1   \* tasks already on the ambient loop besides the caller
MaxOutputs == 3      \* outputs a component declares
MaxReq == 3          \* required inputs an output declares
MaxNameLen == 3      \* characters of a name given to _format_tool_name
MaxTypes == 3        \* accepted type names an input declares

-----------------------------------------------------------------------------
(* The component's argument state *)

ArgNames == {"x", "y"}
Vals == {0, 1}

NoValue == "no_value"
NoObserved == <<>>         \* the method has not begun
NoReturn == 0 - 1          \* no return value is in flight
NoExc == [type |-> "none", origin |-> "none"]
NoOutcome == [how |-> "none"]

KwargsSets == UNION {[D -> Vals] : D \in SUBSET ArgNames}

\* Variant of ComponentSet: the keyword arguments are not written
ComponentSetIgnoresKwargs(a, kw) == a

\* component.set(**kwargs): every named argument is written, the others stay
ComponentSet(a, kw) ==
    [n \in ArgNames |-> IF n \in DOMAIN kw THEN kw[n] ELSE a[n]]

\* The value the wrapped method computes from the argument state it runs on
MethodValue(a) == 2 * a["x"] + a["y"]

Behaviours == [raises : {"none", "ValueError", "RuntimeError"},
               spawn : 0..MaxSpawn]

-----------------------------------------------------------------------------
(* Tasks and loops *)

Task(l, o, n, s) == [loop |-> l, origin |-> o, n |-> n, st |-> s]

\* asyncio.all_tasks(loop): the tasks of the loop that are not done
AllTasks(l) == {t \in tasks : t.loop = l /\ t.st \in {"pending", "cancel_requested"}}

\* task.cancel() requests cancellation; the loop delivers it when it next runs
Cancel(t) == IF t.st = "pending" THEN [t EXCEPT !.st = "cancel_requested"] ELSE t

\* the tasks on the ambient loop of a calling context
AmbientTasks(nbg) ==
    {Task("ambient", "caller", 0, "pending")}
      \cup {Task("ambient", "background", i, "pending") : i \in 1..nbg}

\* except RuntimeError:
ExceptMatches(e) == e.type = "RuntimeError"

-----------------------------------------------------------------------------
(* A tool call *)

CallIdle ==
    /\ pc = "idle"
    /\ kind = "none" /\ kwargs = <<>> /\ loopVar = "unbound"
    /\ ambient = FALSE /\ transient = "none" /\ loopsCreated = 0
    /\ tasks = {} /\ beh = [raises |-> "none", spawn |-> 0]
    /\ started = 0 /\ observed = NoObserved /\ spawned = 0
    /\ retval = NoReturn /\ exc = NoExc /\ schedErrs = {}
    /\ methodExc = NoExc /\ outcome = NoOutcome /\ phases = <<>>

InitCall ==
    /\ args \in [ArgNames -> Vals]
    /\ argsBefore = args
    /\ CallIdle

\* The caller invokes the tool function with kwargs
Invoke ==
    /\ pc = "idle"
    /\ \E k \in {"sync", "async"}, kw \in KwargsSets, b \in Behaviours,
          amb \in BOOLEAN, nbg \in 0..MaxBackground :
        /\ k = "sync" => b.spawn = 0
        /\ ~amb => nbg = 0
        /\ kind' = k
        /\ kwargs' = kw
        /\ beh' = b
        /\ ambient' = amb
        /\ tasks' = IF amb THEN AmbientTasks(nbg) ELSE {}
    /\ argsBefore' = args
    /\ pc' = "set"
    /\ phases' = <<>>
    /\ UNCHANGED <<args, loopVar, transient, loopsCreated, started, observed,
                   spawned, retval, exc, schedErrs, methodExc, outcome>>

\* Variant of SetArgs: the wrapper goes on without writing the arguments
SetArgsSkipped ==
    /\ pc = "set"
    /\ pc' = IF kind = "sync" THEN "sync_call" ELSE "get_running_loop"
    /\ UNCHANGED <<args, kind, kwargs, argsBefore, ambient, loopVar, transient,
                   loopsCreated, tasks, beh, started, observed, spawned,
                   retval, exc, schedErrs, methodExc, outcome, phases>>

\* component.set(*args, **kwargs), first statement of both wrappers
SetArgs ==
    /\ pc = "set"
    /\ args' = ComponentSet(args, kwargs)
    /\ pc' = IF kind = "sync" THEN "sync_call" ELSE "get_running_loop"
    /\ phases' = Append(phases, "args_applied")
    /\ UNCHANGED <<kind, kwargs, argsBefore, ambient, loopVar, transient,
                   loopsCreated, tasks, beh, started, observed, spawned,
                   retval, exc, schedErrs, methodExc, outcome>>

\* Variant of SyncCall: the synchronous wrapper cancels the tasks of the
\* running loop as the asynchronous one does
SyncCallCancelsTasks ==
    /\ pc = "sync_call"
    /\ started' = started + 1
    /\ observed' = args
    /\ IF beh.raises = "none"
         THEN /\ retval' = MethodValue(args)
              /\ UNCHANGED <<exc, methodExc>>
         ELSE /\ exc' = [type |-> beh.raises, origin |-> "method"]
              /\ methodExc' = exc'
              /\ UNCHANGED retval
    /\ tasks' = {Cancel(t) : t \in tasks}
    /\ pc' = "exit"
    /\ phases' = phases \o <<"running", IF beh.raises = "none" THEN "completed" ELSE "failed">>
    /\ UNCHANGED <<args, kind, kwargs, argsBefore, ambient, loopVar, transient,
                   loopsCreated, beh, spawned, schedErrs, outcome>>

\* sync_function: return output_method()
SyncCall ==
    /\ pc = "sync_call"
    /\ started' = started + 1
    /\ observed' = args
    /\ IF beh.raises = "none"
         THEN /\ retval' = MethodValue(args)
              /\ UNCHANGED <<exc, methodExc>>
         ELSE /\ exc' = [type |-> beh.raises, origin |-> "method"]
              /\ methodExc' = exc'
              /\ UNCHANGED retval
    /\ pc' = "exit"
    /\ phases' = phases \o <<"running", IF beh.raises = "none" THEN "completed" ELSE "failed">>
    /\ UNCHANGED <<args, kind, kwargs, argsBefore, ambient, loopVar, transient,
                   loopsCreated, tasks, beh, spawned, schedErrs, outcome>>

\* loop = asyncio.get_running_loop()
GetRunningLoop ==
    /\ pc = "get_running_loop"
    /\ IF ambient
         THEN /\ loopVar' = "ambient"
              /\ pc' = "run_until_complete"
              /\ UNCHANGED <<exc, schedErrs>>
         ELSE /\ exc' = [type |-> "RuntimeError", origin |-> "get_running_loop"]
              /\ schedErrs' = schedErrs \cup {"get_running_loop"}
              /\ pc' = "except"
              /\ UNCHANGED loopVar
    /\ UNCHANGED <<args, kind, kwargs, argsBefore, ambient, transient,
                   loopsCreated, tasks, beh, started, observed, spawned,
                   retval, methodExc, outcome, phases>>

\* Variant of RunUntilComplete: the call waits for the running loop to finish
\* the coroutine, while the loop cannot run before the call returns
RunUntilCompleteBlocks ==
    /\ pc = "run_until_complete"
    /\ loopVar = "ambient" /\ ambient
    /\ UNCHANGED callVars

\* loop.run_until_complete(_run_async()) on the loop get_running_loop returned:
\* that loop is running, and run_until_complete refuses a running loop before
\* it schedules the coroutine
RunUntilComplete ==
    /\ pc = "run_until_complete"
    /\ loopVar = "ambient" /\ ambient
    /\ exc' = [type |-> "RuntimeError", origin |-> "run_until_complete"]
    /\ schedErrs' = schedErrs \cup {"run_until_complete"}
    /\ pc' = "except"
    /\ UNCHANGED <<args, kind, kwargs, argsBefore, ambient, loopVar, transient,
                   loopsCreated, tasks, beh, started, observed, spawned,
                   retval, methodExc, outcome, phases>>

\* except RuntimeError: return asyncio.run(_run_async())
\* asyncio.run refuses to start while a loop runs in the thread; otherwise it
\* creates a new loop and schedules the coroutine on it as the main task
AsyncioRun ==
    /\ pc = "except"
    /\ IF ~ExceptMatches(exc)
         THEN /\ pc' = "finally"
              /\ UNCHANGED <<exc, schedErrs, transient, loopsCreated, tasks>>
         ELSE IF ambient
           THEN /\ exc' = [type |-> "RuntimeError", origin |-> "asyncio_run"]
                /\ schedErrs' = schedErrs \cup {"asyncio_run"}
                /\ pc' = "finally"
                /\ UNCHANGED <<transient, loopsCreated, tasks>>
           ELSE /\ exc' = NoExc
                /\ transient' = "running"
                /\ loopsCreated' = loopsCreated + 1
                /\ tasks' = tasks \cup {Task("transient", "main", 0, "pending")}
                /\ pc' = "main_start"
                /\ UNCHANGED schedErrs
    /\ UNCHANGED <<args, kind, kwargs, argsBefore, ambient, loopVar, beh,
                   started, observed, spawned, retval, methodExc, outcome, phases>>

\* _run_async: await output_method() - the method begins on the new loop
MethodStart ==
    /\ pc = "main_start"
    /\ started' = started + 1
    /\ observed' = args
    /\ pc' = "main_body"
    /\ phases' = Append(phases, "running")
    /\ UNCHANGED <<args, kind, kwargs, argsBefore, ambient, loopVar, transient,
                   loopsCreated, tasks, beh, spawned, retval, exc, schedErrs,
                   methodExc, outcome>>

\* the method schedules a fire-and-forget sub-task on the loop it runs on
MethodSpawn ==
    /\ pc = "main_body"
    /\ spawned < beh.spawn
    /\ spawned' = spawned + 1
    /\ tasks' = tasks \cup {Task("transient", "spawned", spawned + 1, "pending")}
    /\ UNCHANGED <<args, pc, kind, kwargs, argsBefore, ambient, loopVar,
                   transient, loopsCreated, beh, started, observed, retval,
                   exc, schedErrs, methodExc, outcome, phases>>

\* while the method is suspended the loop may run a sub-task to its end
SubTaskCompletes ==
    /\ pc = "main_body"
    /\ \E t \in tasks :
        /\ t.loop = "transient" /\ t.origin = "spawned" /\ t.st = "pending"
        /\ tasks' = (tasks \ {t}) \cup {[t EXCEPT !.st = "done"]}
    /\ UNCHANGED <<args, pc, kind, kwargs, argsBefore, ambient, loopVar,
                   transient, loopsCreated, beh, started, observed, spawned,
                   retval, exc, schedErrs, methodExc, outcome, phases>>

\* the method returns or raises; the main task is done
MethodFinish ==
    /\ pc = "main_body"
    /\ spawned = beh.spawn
    /\ IF beh.raises = "none"
         THEN /\ retval' = MethodValue(observed)
              /\ UNCHANGED <<exc, methodExc>>
         ELSE /\ exc' = [type |-> beh.raises, origin |-> "method"]
              /\ methodExc' = exc'
              /\ UNCHANGED retval
    /\ tasks' = {IF t.origin = "main" THEN [t EXCEPT !.st = "done"] ELSE t : t \in tasks}
    /\ pc' = "teardown"
    /\ phases' = Append(phases, IF beh.raises = "none" THEN "completed" ELSE "failed")
    /\ UNCHANGED <<args, kind, kwargs, argsBefore, ambient, loopVar, transient,
                   loopsCreated, beh, started, observed, spawned, schedErrs,
                   outcome>>

\* Variant of AsyncioRunTeardown: the loop is closed only on the normal path
AsyncioRunTeardownLeaksOnError ==
    /\ pc = "teardown"
    /\ tasks' = {IF t \in AllTasks("transient") THEN [t EXCEPT !.st = "cancelled"] ELSE t
                   : t \in tasks}
    /\ transient' = IF exc = NoExc THEN "closed" ELSE transient
    /\ pc' = "finally"
    /\ UNCHANGED <<args, kind, kwargs, argsBefore, ambient, loopVar,
                   loopsCreated, beh, started, observed, spawned, retval, exc,
                   schedErrs, methodExc, outcome, phases>>

\* Variant of AsyncioRunTeardown: the loop is closed, what is left on it is
\* not cancelled
AsyncioRunTeardownNoCancel ==
    /\ pc = "teardown"
    /\ transient' = "closed"
    /\ pc' = "finally"
    /\ UNCHANGED <<args, kind, kwargs, argsBefore, ambient, loopVar,
                   loopsCreated, tasks, beh, started, observed, spawned,
                   retval, exc, schedErrs, methodExc, outcome, phases>>

\* asyncio.run's own finally: cancel what is left on its loop, run the loop
\* until those tasks have finished, close the loop
AsyncioRunTeardown ==
    /\ pc = "teardown"
    /\ tasks' = {IF t \in AllTasks("transient") THEN [t EXCEPT !.st = "cancelled"] ELSE t
                   : t \in tasks}
    /\ transient' = "closed"
    /\ pc' = "finally"
    /\ UNCHANGED <<args, kind, kwargs, argsBefore, ambient, loopVar,
                   loopsCreated, beh, started, observed, spawned, retval, exc,
                   schedErrs, methodExc, outcome, phases>>

\* Variant of Finally: the first scheduler error of the call is raised again
\* from the finally block
FinallyReraisesSchedulerError ==
    /\ pc = "finally"
    /\ LET pending == IF loopVar # "unbound" THEN AllTasks(loopVar) ELSE {}
       IN tasks' = {IF t \in pending THEN Cancel(t) ELSE t : t \in tasks}
    /\ exc' = IF schedErrs # {} /\ exc # NoExc
                THEN [type |-> "RuntimeError", origin |-> "get_running_loop"]
                ELSE exc
    /\ pc' = "exit"
    /\ phases' = Append(phases, "cleanup")
    /\ UNCHANGED <<args, kind, kwargs, argsBefore, ambient, loopVar, transient,
                   loopsCreated, beh, started, observed, spawned, retval,
                   schedErrs, methodExc, outcome>>

\* finally: pending = asyncio.all_tasks(loop) if "loop" in locals() else set()
\*          for task in pending: task.cancel()
Finally ==
    /\ pc = "finally"
    /\ LET pending == IF loopVar # "unbound" THEN AllTasks(loopVar) ELSE {}
       IN tasks' = {IF t \in pending THEN Cancel(t) ELSE t : t \in tasks}
    /\ pc' = "exit"
    /\ phases' = Append(phases, "cleanup")
    /\ UNCHANGED <<args, kind, kwargs, argsBefore, ambient, loopVar, transient,
                   loopsCreated, beh, started, observed, spawned, retval, exc,
                   schedErrs, methodExc, outcome>>

\* the call leaves the tool function: it returns retval or raises exc
Exit ==
    /\ pc = "exit"
    /\ outcome' = IF exc = NoExc
                    THEN [how |-> "return", value |-> retval]
                    ELSE [how |-> "raise", exc |-> exc]
    /\ pc' = "done"
    /\ UNCHANGED <<args, kind, kwargs, argsBefore, ambient, loopVar, transient,
                   loopsCreated, tasks, beh, started, observed, spawned,
                   retval, exc, schedErrs, methodExc, phases>>

\* the caller goes on; every call starts afresh
NextCall ==
    /\ pc = "done"
    /\ pc' = "idle"
    /\ kind' = "none" /\ kwargs' = <<>> /\ loopVar' = "unbound"
    /\ ambient' = FALSE /\ transient' = "none" /\ loopsCreated' = 0
    /\ tasks' = {} /\ beh' = [raises |-> "none", spawn |-> 0]
    /\ started' = 0 /\ observed' = NoObserved /\ spawned' = 0
    /\ retval' = NoReturn /\ exc' = NoExc /\ schedErrs' = {}
    /\ methodExc' = NoExc /\ outcome' = NoOutcome
    /\ argsBefore' = args
    /\ phases' = <<>>
    /\ UNCHANGED args

-----------------------------------------------------------------------------
(* Strings as sequences of code points *)

\* lexicographic order of two strings by code point, as Python compares str
RECURSIVE StrLeq(_, _)
StrLeq(a, b) ==
    IF a = <<>> THEN TRUE
    ELSE IF b = <<>> THEN FALSE
    ELSE IF Head(a) # Head(b) THEN Head(a) < Head(b)
    ELSE StrLeq(Tail(a), Tail(b))

\* insert a string into a list that is already in order, after its equals
RECURSIVE InsertSorted(_, _)
InsertSorted(x, l) ==
    IF l = <<>> THEN <<x>>
    ELSE IF StrLeq(Head(l), x) THEN <<Head(l)>> \o InsertSorted(x, Tail(l))
    ELSE <<x>> \o l

\* sorted(list of str)
RECURSIVE Sorted(_)
Sorted(l) ==
    IF l = <<>> THEN <<>>
    ELSE InsertSorted(l[Len(l)], Sorted(SubSeq(l, 1, Len(l) - 1)))

\* sep.join(list of str)
RECURSIVE Join(_, _)
Join(sep, l) ==
    IF l = <<>> THEN <<>>
    ELSE IF Len(l) = 1 THEN l[1]
    ELSE l[1] \o sep \o Join(sep, Tail(l))

-----------------------------------------------------------------------------
(* Component metadata *)

\* langflow.base.tools.constants.TOOL_OUTPUT_NAME
TOOL_OUTPUT_NAME == "component_as_tool"

\* an absent method (None) and an empty method name are both falsy
NoMethod == <<>>

Input(n, ft, its) == [name |-> n, field_type |-> ft, input_types |-> its]
Output(n, m, req) == [name |-> n, method |-> m, required_inputs |-> req]

\* component._inputs[input_name]
InputByName(comp, n) ==
    LET i == CHOOSE j \in 1..Len(comp.inputs) : comp.inputs[j].name = n
    IN comp.inputs[i]

\* Variant of GetInputType: only the first accepted type is rendered
GetInputTypeFirstOnly(inp) ==
    IF inp.input_types # <<>>
      THEN inp.input_types[1]
      ELSE inp.field_type

\* _get_input_type
GetInputType(inp) ==
    IF inp.input_types # <<>>
      THEN IF Len(inp.input_types) = 1
             THEN inp.input_types[1]
             ELSE Join(<<32, 124, 32>>, inp.input_types)        \* " | "
      ELSE inp.field_type

\* f"{input_name}: {_get_input_type(component._inputs[input_name])}"
RenderArg(comp, n) == n \o <<58, 32>> \o GetInputType(InputByName(comp, n))

\* the list comprehension over output.required_inputs
RenderedArgs(comp, out) ==
    [i \in 1..Len(out.required_inputs) |-> RenderArg(comp, out.required_inputs[i])]

\* args = ", ".join(sorted([...])) when the output has required inputs, else ""
DescriptionArgs(comp, out) ==
    IF out.required_inputs # <<>>
      THEN Join(<<44, 32>>, Sorted(RenderedArgs(comp, out)))
      ELSE <<>>

\* the string build_description returns: f"{method}({args}) - {description}"
BuildDescription(comp, out) ==
    out.method \o <<40>> \o DescriptionArgs(comp, out) \o <<41>>
        \o <<32, 45, 32>> \o comp.description

\* Variant of DescriptionWarnings: nothing is logged
DescriptionWarningsNever(out) == <<>>

\* the records build_description hands to logger.warning
DescriptionWarnings(out) ==
    IF out.required_inputs = <<>>
      THEN <<[level |-> "warning", output |-> out.name]>>
      ELSE <<>>

\* Variant of FormatToolName: the character class also lets "." through
FormatToolNameKeepsDots(name) ==
    [i \in 1..Len(name) |->
        IF \/ name[i] \in 97..122 \/ name[i] \in 65..90 \/ name[i] \in 48..57
           \/ name[i] = 95 \/ name[i] = 45 \/ name[i] = 46
          THEN name[i] ELSE 45]

\* _format_tool_name: re.sub(r"[^a-zA-Z0-9_-]", "-", name)
FormatToolName(name) ==
    [i \in 1..Len(name) |->
        IF \/ name[i] \in 97..122 \/ name[i] \in 65..90 \/ name[i] \in 48..57
           \/ name[i] = 95 \/ name[i] = 45
          THEN name[i] ELSE 45]

\* is_async_callable on a bound method of the component
IsAsyncCallable(comp, m) == comp.methods[m] = "coroutine_function"

\* _build_output_function: which wrapper is built around the method
BuildOutputFunction(comp, m) ==
    [wrapper |-> IF ~IsAsyncCallable(comp, m) THEN "sync_function" ELSE "async_wrapper",
     method |-> m]

\* create_input_schema: the schema is opaque, it is known by the inputs it
\* was given
CreateInputSchema(inputs) == [schema_of |-> inputs]

\* Variant of SchemaInputs: the schema is always built from every input
SchemaInputsAlwaysAll(comp, out) == comp.inputs

\* the inputs get_tools passes to create_input_schema
SchemaInputs(comp, out) ==
    IF out.required_inputs # <<>>
      THEN [i \in 1..Len(out.required_inputs) |-> InputByName(comp, out.required_inputs[i])]
      ELSE comp.inputs

\* the StructuredTool get_tools appends for an output
Descriptor(comp, out) ==
    [name |-> FormatToolName(comp.name \o <<46>> \o out.method),
     description |-> BuildDescription(comp, out),
     func |-> BuildOutputFunction(comp, out.method),
     args_schema |-> CreateInputSchema(SchemaInputs(comp, out))]

-----------------------------------------------------------------------------
(* The components the specifications run on *)

NameA == <<97>>                  \* "a"
NameA1 == <<97, 49>>             \* "a1"
NameB == <<98>>                  \* "b"
NameAB == <<97, 98>>             \* "ab"
TypeInt == <<105, 110, 116>>     \* "int"
TypeStr == <<115, 116, 114>>     \* "str"
MethodRun == <<114, 117, 110>>   \* "run", a plain method
MethodGet == <<103, 101, 116>>   \* "get", a coroutine method
MethodToToolkit == <<116, 111, 95, 116>>   \* "to_t", the sentinel's method

InputNames == {NameA, NameA1, NameB, NameAB}

\* component.inputs, in declaration order
DeclaredInputs ==
    << Input(NameB, TypeStr, <<>>),
       Input(NameA1, TypeStr, <<TypeInt, TypeStr>>),
       Input(NameA, TypeStr, <<TypeInt>>),
       Input(NameAB, TypeInt, <<>>) >>

ComponentWith(outs) ==
    [name |-> <<65, 32, 98>>,        \* "A b"
     description |-> <<100>>,        \* "d"
     inputs |-> DeclaredInputs,
     outputs |-> outs,
     methods |-> [m \in {MethodRun, MethodGet, MethodToToolkit} |->
                     IF m = MethodGet THEN "coroutine_function" ELSE "function"]]

SeqsUpTo(S, n) == UNION {[1..k -> S] : k \in 0..n}

OutputChoices ==
    {Output(TOOL_OUTPUT_NAME, MethodToToolkit, <<>>)}
      \cup {Output("result", m, req) :
               m \in {NoMethod, MethodRun, MethodGet},
               req \in {<<>>, <<NameB, NameA>>, <<NameA1>>}}

-----------------------------------------------------------------------------
(* ComponentToolkit.get_tools *)

NoResult == [how |-> "none", exc |-> NoExc, value |-> NoValue]

CurrentOutput == component.outputs[idx + 1]

\* tools = []
GetToolsCall ==
    /\ gpc = "ready"
    /\ tools' = <<>>
    /\ idx' = 0
    /\ gpc' = "loop"
    /\ UNCHANGED <<component, warnings, gresult>>

\* if output.name == TOOL_OUTPUT_NAME: continue
GetToolsSkip ==
    /\ gpc = "loop" /\ idx < Len(component.outputs)
    /\ CurrentOutput.name = TOOL_OUTPUT_NAME
    /\ idx' = idx + 1
    /\ UNCHANGED <<component, gpc, tools, warnings, gresult>>

\* Variant of GetToolsRaise: an output without a method is passed over
GetToolsRaiseSkips ==
    /\ gpc = "loop" /\ idx < Len(component.outputs)
    /\ CurrentOutput.name # TOOL_OUTPUT_NAME
    /\ CurrentOutput.method = NoMethod
    /\ idx' = idx + 1
    /\ UNCHANGED <<component, gpc, tools, warnings, gresult>>

\* if not output.method: raise ValueError(msg)
GetToolsRaise ==
    /\ gpc = "loop" /\ idx < Len(component.outputs)
    /\ CurrentOutput.name # TOOL_OUTPUT_NAME
    /\ CurrentOutput.method = NoMethod
    /\ gresult' = [how |-> "raise",
                   exc |-> [type |-> "ValueError", origin |-> CurrentOutput.name],
                   value |-> NoValue]
    /\ gpc' = "done"
    /\ UNCHANGED <<component, idx, tools, warnings>>

\* Variant of GetToolsAppend: the new descriptor is put in front of the list
GetToolsAppendInFront ==
    /\ gpc = "loop" /\ idx < Len(component.outputs)
    /\ CurrentOutput.name # TOOL_OUTPUT_NAME
    /\ CurrentOutput.method # NoMethod
    /\ tools' = <<Descriptor(component, CurrentOutput)>> \o tools
    /\ warnings' = warnings \o DescriptionWarnings(CurrentOutput)
    /\ idx' = idx + 1
    /\ UNCHANGED <<component, gpc, gresult>>

\* the rest of the loop body: tools.append(StructuredTool(...))
GetToolsAppend ==
    /\ gpc = "loop" /\ idx < Len(component.outputs)
    /\ CurrentOutput.name # TOOL_OUTPUT_NAME
    /\ CurrentOutput.method # NoMethod
    /\ tools' = Append(tools, Descriptor(component, CurrentOutput))
    /\ warnings' = warnings \o DescriptionWarnings(CurrentOutput)
    /\ idx' = idx + 1
    /\ UNCHANGED <<component, gpc, gresult>>

\* return tools
GetToolsReturn ==
    /\ gpc = "loop" /\ idx = Len(component.outputs)
    /\ gresult' = [how |-> "return", exc |-> NoExc, value |-> tools]
    /\ gpc' = "done"
    /\ UNCHANGED <<component, idx, tools, warnings>>

-----------------------------------------------------------------------------
(* build_description on its own *)

CallBuildDescription ==
    /\ dpc = "start"
    /\ dresult' = BuildDescription(dcomp, dout)
    /\ warnings' = warnings \o DescriptionWarnings(dout)
    /\ dpc' = "done"
    /\ UNCHANGED <<dcomp, dout, component, gpc, idx, tools, gresult>>

-----------------------------------------------------------------------------
(* Specifications *)

InitToolsIdle ==
    /\ component = <<>> /\ gpc = "off" /\ idx = 0 /\ tools = <<>>
    /\ warnings = <<>> /\ gresult = NoResult

InitDescIdle ==
    /\ dpc = "off" /\ dcomp = <<>> /\ dout = <<>> /\ dresult = NoValue

InitConcIdle ==
    /\ otherKw = <<>> /\ otherWhen = "none"

InitNameIdle ==
    /\ npc = "off" /\ ninput = <<>> /\ nresult = <<>> /\ nresult2 = <<>>

InitTypeIdle ==
    /\ tpc = "off" /\ tinput = <<>> /\ tresult = <<>>

InitCallIdle ==
    /\ args = [n \in ArgNames |-> 0]
    /\ argsBefore = args
    /\ CallIdle
    /\ InitConcIdle

Init ==
    /\ InitCall /\ InitConcIdle
    /\ InitToolsIdle /\ InitDescIdle /\ InitNameIdle /\ InitTypeIdle

CallNext ==
    \/ Invoke \/ SetArgs \/ SyncCall \/ GetRunningLoop \/ RunUntilComplete
    \/ AsyncioRun \/ MethodStart \/ MethodSpawn \/ SubTaskCompletes
    \/ MethodFinish \/ AsyncioRunTeardown \/ Finally \/ Exit \/ NextCall

Next == CallNext /\ UNCHANGED <<concVars, toolVars, descVars, nameVars, typeVars>>

Spec == Init /\ [][Next]_vars

\* get_tools on a toolkit constructed over any of the components
InitTools ==
    /\ component \in {ComponentWith(outs) : outs \in SeqsUpTo(OutputChoices, MaxOutputs)}
    /\ gpc = "ready" /\ idx = 0 /\ tools = <<>>
    /\ warnings = <<>> /\ gresult = NoResult
    /\ InitCallIdle /\ InitDescIdle /\ InitNameIdle /\ InitTypeIdle

ToolsNext ==
    \/ GetToolsCall \/ GetToolsSkip \/ GetToolsRaise \/ GetToolsAppend
    \/ GetToolsReturn

NextTools == ToolsNext /\ UNCHANGED <<callVars, concVars, descVars, nameVars, typeVars>>

SpecTools == InitTools /\ [][NextTools]_vars

\* build_description on any output of the component
InitDesc ==
    /\ dcomp = ComponentWith(<<>>)
    /\ dout \in {Output("result", MethodRun, req) : req \in SeqsUpTo(InputNames, MaxReq)}
    /\ dpc = "start" /\ dresult = NoValue
    /\ InitCallIdle /\ InitToolsIdle /\ InitNameIdle /\ InitTypeIdle

NextDesc == CallBuildDescription /\ UNCHANGED <<callVars, concVars, nameVars, typeVars>>

SpecDesc == InitDesc /\ [][NextDesc]_vars

-----------------------------------------------------------------------------
(* _format_tool_name on its own, and as get_tools uses it *)

\* code points names are drawn from: a Z 5 _ - space . e-acute
NameAlphabet == {97, 90, 53, 95, 45, 32, 46, 233}

\* formatted = _format_tool_name(name)
CallFormatToolName ==
    /\ npc = "start"
    /\ nresult' = FormatToolName(ninput)
    /\ npc' = "once"
    /\ UNCHANGED <<ninput, nresult2>>

\* _format_tool_name(formatted)
CallFormatToolNameAgain ==
    /\ npc = "once"
    /\ nresult2' = FormatToolName(nresult)
    /\ npc' = "twice"
    /\ UNCHANGED <<ninput, nresult>>

InitName ==
    \/ InitTools
    \/ /\ ninput \in SeqsUpTo(NameAlphabet, MaxNameLen)
       /\ npc = "start" /\ nresult = <<>> /\ nresult2 = <<>>
       /\ InitCallIdle /\ InitToolsIdle /\ InitDescIdle /\ InitTypeIdle

NextName ==
    \/ ToolsNext /\ UNCHANGED <<callVars, concVars, descVars, nameVars, typeVars>>
    \/ /\ CallFormatToolName \/ CallFormatToolNameAgain
       /\ UNCHANGED <<callVars, concVars, toolVars, descVars, typeVars>>

SpecName == InitName /\ [][NextName]_vars

-----------------------------------------------------------------------------
(* _get_input_type on its own *)

TypeMsg == <<77, 115, 103>>      \* "Msg"
TypeNames == {TypeInt, TypeStr, TypeMsg}

CallGetInputType ==
    /\ tpc = "start"
    /\ tresult' = GetInputType(tinput)
    /\ tpc' = "done"
    /\ UNCHANGED tinput

\* an input whose input_types is absent or empty has input_types <<>>
InitType ==
    /\ tinput \in {Input(NameA, ft, its) :
                      ft \in TypeNames, its \in SeqsUpTo(TypeNames, MaxTypes)}
    /\ tpc = "start" /\ tresult = <<>>
    /\ InitCallIdle /\ InitToolsIdle /\ InitDescIdle /\ InitNameIdle

NextType ==
    CallGetInputType /\ UNCHANGED <<callVars, concVars, toolVars, descVars, nameVars>>

SpecType == InitType /\ [][NextType]_vars

-----------------------------------------------------------------------------
(* A tool call whose thread keeps running and whose method terminates *)

\* the steps of a call once it has been made
CallStep ==
    /\ \/ SetArgs \/ SyncCall \/ GetRunningLoop \/ RunUntilComplete
       \/ AsyncioRun \/ MethodStart \/ MethodSpawn \/ SubTaskCompletes
       \/ MethodFinish \/ AsyncioRunTeardown \/ Finally \/ Exit
    /\ UNCHANGED <<concVars, toolVars, descVars, nameVars, typeVars>>

SpecLive == Init /\ [][Next]_vars /\ WF_vars(CallStep)

-----------------------------------------------------------------------------
(* A tool call in which component.set may raise *)

\* the keyword arguments component.set wrote before it raised
WrittenBeforeRaise(D) == [n \in D |-> kwargs[n]]

\* Variant of SetArgsRaises: component.set is called inside the try block, so
\* its exception passes through the finally block
SetArgsRaisesInsideTry ==
    /\ pc = "set"
    /\ \E D \in SUBSET (DOMAIN kwargs) :
          /\ DOMAIN kwargs # {} => D # DOMAIN kwargs
          /\ args' = ComponentSet(args, WrittenBeforeRaise(D))
    /\ exc' = [type |-> "Exception", origin |-> "component.set"]
    /\ IF kind = "async"
         THEN /\ pc' = "finally"
              /\ loopVar' = IF ambient THEN "ambient" ELSE loopVar
         ELSE /\ pc' = "exit"
              /\ UNCHANGED loopVar
    /\ UNCHANGED <<kind, kwargs, argsBefore, ambient, transient,
                   loopsCreated, tasks, beh, started, observed, spawned,
                   retval, schedErrs, methodExc, outcome, phases>>

\* component.set(*args, **kwargs) raises: the statement stands before the try
\* block of async_wrapper and is the first of sync_function, so the exception
\* leaves the tool function at once
SetArgsRaises ==
    /\ pc = "set"
    /\ \E D \in SUBSET (DOMAIN kwargs) :
          /\ DOMAIN kwargs # {} => D # DOMAIN kwargs
          /\ args' = ComponentSet(args, WrittenBeforeRaise(D))
    /\ exc' = [type |-> "Exception", origin |-> "component.set"]
    /\ pc' = "exit"
    /\ UNCHANGED <<kind, kwargs, argsBefore, ambient, loopVar, transient,
                   loopsCreated, tasks, beh, started, observed, spawned,
                   retval, schedErrs, methodExc, outcome, phases>>

NextSet ==
    /\ CallNext \/ SetArgsRaises
    /\ UNCHANGED <<concVars, toolVars, descVars, nameVars, typeVars>>

SpecSet == Init /\ [][NextSet]_vars

-----------------------------------------------------------------------------
(* Two calls on one component: a second tool call, made from another      *)
(* thread, writes its arguments while the first call is under way          *)

CallRest == <<pc, kind, kwargs, argsBefore, ambient, loopVar, transient,
              loopsCreated, tasks, beh, started, observed, spawned, retval,
              exc, schedErrs, methodExc, outcome, phases>>

\* Variant of OtherCallSet: the concurrent call writes to a state of its own
OtherCallSetIsolated ==
    /\ pc \in {"set", "sync_call", "get_running_loop", "run_until_complete",
               "except", "main_start"}
    /\ otherWhen = "none"
    /\ \E kw \in KwargsSets \ {<<>>} : otherKw' = kw
    /\ otherWhen' = IF pc = "set" THEN "before_set" ELSE "after_set"
    /\ UNCHANGED args
    /\ UNCHANGED CallRest

\* component.set(*args, **kwargs) of the concurrent call, at any point of the
\* first call up to the moment its method begins
OtherCallSet ==
    /\ pc \in {"set", "sync_call", "get_running_loop", "run_until_complete",
               "except", "main_start"}
    /\ otherWhen = "none"
    /\ \E kw \in KwargsSets \ {<<>>} :
          /\ otherKw' = kw
          /\ args' = ComponentSet(args, kw)
    /\ otherWhen' = IF pc = "set" THEN "before_set" ELSE "after_set"
    /\ UNCHANGED CallRest

NextConc ==
    /\ \/ CallNext /\ pc # "done" /\ UNCHANGED concVars
       \/ NextCall /\ otherKw' = <<>> /\ otherWhen' = "none"
       \/ OtherCallSet
    /\ UNCHANGED <<toolVars, descVars, nameVars, typeVars>>

SpecConc == Init /\ [][NextConc]_vars

-----------------------------------------------------------------------------
(* Claims about a tool call, checked under Spec *)

\* the argument state the wrapped method of the current call must run on
ArgsOfCall == ComponentSet(argsBefore, kwargs)

AsyncExited == pc = "done" /\ kind = "async"

\* C1: a tool built from an asynchronous method, called while an event loop
\* is running, runs the method to completion on that loop, constructs no
\* second loop, and returns the value that awaiting the method would give.
C1_RunningLoopDrivesMethod ==
    (AsyncExited /\ ambient /\ beh.raises = "none") =>
        /\ started = 1
        /\ loopsCreated = 0
        /\ outcome = [how |-> "return", value |-> MethodValue(ArgsOfCall)]

\* C2: a tool built from an asynchronous method, called with no running
\* loop, creates exactly one transient loop, runs the method once on it,
\* returns the method's value, and the transient loop is closed by the time
\* the call leaves, whether it returns or raises.
C2_TransientLoopTornDown ==
    (pc \in {"exit", "done"} /\ kind = "async" /\ ~ambient) =>
        /\ loopsCreated = 1
        /\ transient = "closed"
        /\ started = 1
        /\ beh.raises = "none" => retval = MethodValue(ArgsOfCall) /\ exc = NoExc
        /\ (pc = "done" /\ beh.raises = "none") =>
               outcome = [how |-> "return", value |-> MethodValue(ArgsOfCall)]

C2_Witness ==
    /\ pc = "done" /\ kind = "async" /\ ~ambient
    /\ outcome.how = "raise" /\ outcome.exc.origin = "method"
    /\ loopsCreated = 1 /\ transient = "closed"

\* C3: when a call of an asynchronous tool leaves, by return or by raise, in
\* either context, no sub-task that the method scheduled during the call is
\* still pending.
C3_NoStraySubTask ==
    (pc \in {"exit", "done"} /\ kind = "async") =>
        \A t \in tasks :
            t.origin = "spawned" => t.st \notin {"pending", "cancel_requested"}

C3_Witness ==
    /\ AsyncExited
    /\ spawned = MaxSpawn
    /\ \E t \in tasks : t.origin = "spawned" /\ t.st = "cancelled"

\* C4: within one call the arguments are written into the component before
\* the wrapped method begins, so the method observes the arguments of its own
\* call.
C4_SetBeforeMethod ==
    started > 0 => observed = ArgsOfCall

C4_Witness ==
    /\ started = 1 /\ kind = "sync"
    /\ observed = ArgsOfCall /\ observed # argsBefore

C4_WitnessAsync ==
    /\ started = 1 /\ kind = "async"
    /\ observed = ArgsOfCall /\ observed # argsBefore

\* C5: a call of a tool whose wrapped method raises an exception leaves the
\* tool function by raising that same exception, for a synchronous method and
\* for an asynchronous method in both contexts, RuntimeError included.
C5_MethodExceptionPropagates ==
    (pc = "done" /\ beh.raises # "none") =>
        outcome = [how |-> "raise",
                   exc |-> [type |-> beh.raises, origin |-> "method"]]

\* C6: when a call of an asynchronous tool meets both a scheduler error and
\* an exception from the method body, the exception that leaves the tool
\* function is the method's.
C6_MethodExceptionWins ==
    (pc = "done" /\ kind = "async" /\ schedErrs # {} /\ methodExc # NoExc) =>
        outcome = [how |-> "raise", exc |-> methodExc]

C6_Witness ==
    /\ pc = "done" /\ kind = "async"
    /\ "get_running_loop" \in schedErrs
    /\ methodExc.type = "RuntimeError"
    /\ outcome.how = "raise"

-----------------------------------------------------------------------------
(* Claims about get_tools, checked under SpecTools *)

IsToolOutput(o) == o.name # TOOL_OUTPUT_NAME

\* the outputs get_tools makes tools from, in declaration order
NonSentinelOutputs == SelectSeq(component.outputs, IsToolOutput)

SomeOutputLacksMethod ==
    \E i \in 1..Len(NonSentinelOutputs) : NonSentinelOutputs[i].method = NoMethod

\* C7: get_tools raises ValueError whenever a non-sentinel output has no
\* bound method, and then delivers no tools, also not those it had already
\* built for earlier outputs.
C7_MissingMethodAborts ==
    (gpc = "done" /\ SomeOutputLacksMethod) =>
        /\ gresult.how = "raise"
        /\ gresult.exc.type = "ValueError"
        /\ gresult.value = NoValue

C7_Witness ==
    /\ gpc = "done" /\ SomeOutputLacksMethod
    /\ gresult.how = "raise"
    /\ Len(tools) = MaxOutputs - 1

\* C8: when every non-sentinel output has a method, get_tools returns one
\* descriptor per non-sentinel output, none for the sentinel, and the i-th
\* descriptor is that of the i-th non-sentinel output in declaration order.
C8_OneToolPerOutputInOrder ==
    (gpc = "done" /\ ~SomeOutputLacksMethod) =>
        /\ gresult.how = "return"
        /\ Len(gresult.value) = Len(NonSentinelOutputs)
        /\ \A i \in 1..Len(NonSentinelOutputs) :
              gresult.value[i] = Descriptor(component, NonSentinelOutputs[i])

C8_Witness ==
    /\ gpc = "done" /\ gresult.how = "return"
    /\ Len(component.outputs) = MaxOutputs
    /\ Len(gresult.value) = MaxOutputs - 1
    /\ component.outputs[2].name = TOOL_OUTPUT_NAME
    /\ gresult.value[1] # gresult.value[2]

\* the names of the inputs a schema was built from
SchemaInputNames(schema) ==
    [i \in 1..Len(schema.schema_of) |-> schema.schema_of[i].name]

DeclaredInputNames == [i \in 1..Len(component.inputs) |-> component.inputs[i].name]

\* C10: for each non-sentinel output, the schema is built from exactly the
\* inputs named in required_inputs, in that order, when the output declares
\* required inputs, and from all the component's inputs when it declares none.
C10_SchemaFromRequiredOrAll ==
    (gpc = "done" /\ gresult.how = "return") =>
        \A i \in 1..Len(gresult.value) :
            LET out == NonSentinelOutputs[i]
                fed == SchemaInputNames(gresult.value[i].args_schema)
            IN IF out.required_inputs # <<>>
                 THEN fed = out.required_inputs
                 ELSE fed = DeclaredInputNames

C10_Witness ==
    /\ gpc = "done" /\ gresult.how = "return"
    /\ \E i, j \in 1..Len(gresult.value) :
          /\ NonSentinelOutputs[i].required_inputs = <<NameB, NameA>>
          /\ SchemaInputNames(gresult.value[i].args_schema) = <<NameB, NameA>>
          /\ NonSentinelOutputs[j].required_inputs = <<>>
          /\ Len(gresult.value[j].args_schema.schema_of) = Len(DeclaredInputs)

-----------------------------------------------------------------------------
(* Claims about build_description, checked under SpecDesc *)

\* the description whose arguments are in the order of their names
DescriptionByName(comp, out) ==
    LET names == Sorted(out.required_inputs)
    IN out.method \o <<40>>
         \o Join(<<44, 32>>, [i \in 1..Len(names) |-> RenderArg(comp, names[i])])
         \o <<41>> \o <<32, 45, 32>> \o comp.description

\* C9: the arguments of a description are in alphabetical order of the input
\* names, whatever the names and their declaration order.
C9_ArgsOrderedByName ==
    dpc = "done" => dresult = DescriptionByName(dcomp, dout)

-----------------------------------------------------------------------------
(* Claims about _format_tool_name, checked under SpecName *)

\* the characters of ^[A-Za-z0-9_-]+$
LegalChars == (97..122) \cup (65..90) \cup (48..57) \cup {95, 45}

\* r is s with every character outside LegalChars replaced by a hyphen
IsNormalizationOf(r, s) ==
    /\ Len(r) = Len(s)
    /\ \A i \in 1..Len(s) : r[i] = IF s[i] \in LegalChars THEN s[i] ELSE 45

\* C11: _format_tool_name is defined for every string and idempotent, its
\* result for a non-empty string has only characters of [A-Za-z0-9_-], and
\* every tool name get_tools produces is the normalization of
\* component.name + "." + output.method.
C11_NormalizeIdempotentLegal ==
    /\ npc \in {"once", "twice"} =>
          /\ Len(nresult) = Len(ninput)
          /\ \A i \in 1..Len(nresult) : nresult[i] \in LegalChars
    /\ npc = "twice" => nresult2 = nresult
    /\ (gpc = "done" /\ gresult.how = "return") =>
          \A i \in 1..Len(gresult.value) :
              IsNormalizationOf(gresult.value[i].name,
                  component.name \o <<46>> \o NonSentinelOutputs[i].method)

C11_Witness ==
    /\ npc = "twice"
    /\ Len(ninput) = MaxNameLen
    /\ \E i \in 1..Len(ninput) : ninput[i] = 46 /\ nresult[i] = 45
    /\ \E i \in 1..Len(ninput) : ninput[i] = 45
    /\ nresult2 = nresult

C11_WitnessTools ==
    /\ gpc = "done" /\ gresult.how = "return"
    /\ Len(gresult.value) = MaxOutputs
    /\ gresult.value[1].name = <<65, 45, 98, 45>> \o NonSentinelOutputs[1].method

-----------------------------------------------------------------------------
(* Claims about outputs without required inputs, checked under SpecTools *)

HasNoRequiredInputs(o) == o.required_inputs = <<>>

OutputsWithoutRequiredInputs == SelectSeq(NonSentinelOutputs, HasNoRequiredInputs)

\* C12: for an output that declares no required inputs the description is
\* "method() - <component description>", a warning is recorded for it, and
\* get_tools still produces a descriptor for the output.
C12_NoRequiredInputsWarnsAndGoesOn ==
    (gpc = "done" /\ ~SomeOutputLacksMethod) =>
        /\ gresult.how = "return"
        /\ Len(gresult.value) = Len(NonSentinelOutputs)
        /\ \A i \in 1..Len(NonSentinelOutputs) :
              HasNoRequiredInputs(NonSentinelOutputs[i]) =>
                  gresult.value[i].description =
                      NonSentinelOutputs[i].method \o <<40, 41, 32, 45, 32>>
                          \o component.description
        /\ Len(warnings) = Len(OutputsWithoutRequiredInputs)
        /\ \A i \in 1..Len(warnings) :
              /\ warnings[i].level = "warning"
              /\ warnings[i].output = OutputsWithoutRequiredInputs[i].name

C12_Witness ==
    /\ gpc = "done" /\ gresult.how = "return"
    /\ Len(gresult.value) >= 2
    /\ HasNoRequiredInputs(NonSentinelOutputs[1])
    /\ ~HasNoRequiredInputs(NonSentinelOutputs[2])
    /\ gresult.value[1].description = <<114, 117, 110, 40, 41, 32, 45, 32, 100>>
    /\ Len(warnings) = 1

-----------------------------------------------------------------------------
(* Further claims about a tool call, checked under Spec *)

\* C13: a call of a tool built from a synchronous method sets every named
\* argument on the component to the given value and returns the value the
\* method returns when run once on that updated state.
C13_SyncSetsThenReturnsMethodValue ==
    (pc = "done" /\ kind = "sync" /\ beh.raises = "none") =>
        /\ \A n \in DOMAIN kwargs : args[n] = kwargs[n]
        /\ \A n \in ArgNames \ DOMAIN kwargs : args[n] = argsBefore[n]
        /\ started = 1
        /\ outcome = [how |-> "return", value |-> MethodValue(args)]

C13_Witness ==
    /\ pc = "done" /\ kind = "sync"
    /\ DOMAIN kwargs = {"x"} /\ kwargs["x"] = 1 /\ argsBefore["x"] = 0
    /\ args["x"] = 1
    /\ outcome = [how |-> "return", value |-> 2 + argsBefore["y"]]

\* C14: every call goes idle -> args-applied -> running -> completed or
\* failed: the wrapped method is started exactly once, and for an
\* asynchronous method the cleanup step runs after the completed and after
\* the failed exit, before the call returns or raises.
C14_PhasesOfEveryCall ==
    pc = "done" =>
        /\ started = 1
        /\ phases \in
             IF kind = "async"
               THEN {<<"args_applied", "running", "completed", "cleanup">>,
                     <<"args_applied", "running", "failed", "cleanup">>}
               ELSE {<<"args_applied", "running", "completed">>,
                     <<"args_applied", "running", "failed">>}

\* C15: the cleanup at the end of an asynchronous call cancels only tasks the
\* method spawned during the call: inside a running loop the caller's own
\* task and the tasks that were already scheduled are left uncancelled.
C15_CleanupSparesForeignTasks ==
    (pc \in {"exit", "done"} /\ kind = "async" /\ ambient) =>
        \A t \in tasks :
            t.origin \in {"caller", "background"} => t.st = "pending"

-----------------------------------------------------------------------------
(* Claims about concurrent calls, checked under SpecConc *)

\* the value of argument n after the writes of both calls, the later winning
LastWritten(n) ==
    IF otherWhen = "after_set" /\ n \in DOMAIN otherKw THEN otherKw[n]
    ELSE IF n \in DOMAIN kwargs THEN kwargs[n]
    ELSE IF otherWhen = "before_set" /\ n \in DOMAIN otherKw THEN otherKw[n]
    ELSE argsBefore[n]

\* C16: the component's argument state is not isolated per call: the method
\* of a call runs on whatever was written last, by its own call or by a
\* concurrent one, so it can run on values the other call wrote.
C16_MethodSeesLastWrite ==
    started > 0 => \A n \in ArgNames : observed[n] = LastWritten(n)

C16_Witness ==
    /\ started = 1
    /\ otherWhen = "after_set"
    /\ \E n \in DOMAIN kwargs : observed[n] # kwargs[n] /\ observed[n] = otherKw[n]

-----------------------------------------------------------------------------
(* Claims about termination, checked under SpecLive *)

\* C17: every call of an asynchronous tool whose method terminates leaves the
\* tool function, by return or by raise, with and without a running loop.
C17_AsyncCallExits ==
    (pc = "set" /\ kind = "async") ~> (pc = "done")

C17_Witness ==
    /\ pc = "done" /\ kind = "async" /\ ambient
    /\ outcome.how = "raise"
    /\ "run_until_complete" \in schedErrs

C17_WitnessNoLoop ==
    /\ pc = "done" /\ kind = "async" /\ ~ambient
    /\ spawned = MaxSpawn
    /\ outcome.how = "return"

-----------------------------------------------------------------------------
(* Claims about the synchronous wrapper, checked under Spec *)

\* C18: a call of a tool built from a synchronous method creates no loop and
\* cancels no task: inside a running loop the pending tasks of the loop are
\* the same after the call as before it.
C18_SyncUsesNoScheduler ==
    (kind = "sync" /\ pc \in {"sync_call", "exit", "done"}) =>
        /\ loopsCreated = 0
        /\ transient = "none"
        /\ loopVar = "unbound"
        /\ schedErrs = {}
        /\ tasks = IF ambient THEN AmbientTasks(Cardinality(tasks) - 1) ELSE {}

C18_Witness ==
    /\ kind = "sync" /\ pc = "done" /\ ambient
    /\ Cardinality(tasks) = MaxBackground + 1
    /\ \A t \in tasks : t.st = "pending"
    /\ started = 1

-----------------------------------------------------------------------------
(* Claims about failures around component.set, checked under SpecSet *)

SetRaised == exc.origin = "component.set"

\* C19: when the wrapped method raises, the component still holds the
\* arguments the call wrote; when component.set itself raises, the method is
\* never started and no loop is created or cleaned up.
C19_NoRollbackAndSetGates ==
    /\ (pc = "done" /\ methodExc # NoExc) => args = ArgsOfCall
    /\ SetRaised =>
          /\ started = 0
          /\ loopsCreated = 0 /\ transient = "none" /\ loopVar = "unbound"
          /\ schedErrs = {}
          /\ phases = <<>>
          /\ \A t \in tasks : t.st = "pending"
          /\ pc = "done" => outcome = [how |-> "raise", exc |-> exc]

C19_Witness ==
    /\ pc = "done" /\ SetRaised
    /\ kind = "async" /\ ambient
    /\ Cardinality(tasks) = MaxBackground + 1
    /\ outcome.how = "raise"

C19_WitnessMethodRaises ==
    /\ pc = "done" /\ methodExc # NoExc
    /\ args = ArgsOfCall /\ args # argsBefore

-----------------------------------------------------------------------------
(* Claims about _get_input_type, checked under SpecType *)

\* the type names one after the other, " | " between neighbours
RECURSIVE BarSeparated(_)
BarSeparated(ts) ==
    IF Len(ts) = 1 THEN ts[1]
    ELSE BarSeparated(SubSeq(ts, 1, Len(ts) - 1)) \o <<32, 124, 32>> \o ts[Len(ts)]

\* C20: _get_input_type gives the single accepted type name when the input
\* declares exactly one, the accepted type names joined by " | " in
\* declaration order when it declares several, and the declared field type
\* when it declares none.
C20_InputTypeRendering ==
    tpc = "done" =>
        IF Len(tinput.input_types) = 0 THEN tresult = tinput.field_type
        ELSE IF Len(tinput.input_types) = 1 THEN tresult = tinput.input_types[1]
        ELSE tresult = BarSeparated(tinput.input_types)

C20_Witness ==
    /\ tpc = "done"
    /\ Len(tinput.input_types) = MaxTypes
    /\ tinput.input_types[1] # tinput.input_types[2]
    /\ tinput.field_type # tinput.input_types[1]
    /\ SubSeq(tresult, 1, Len(tinput.input_types[1]) + 3)
          = tinput.input_types[1] \o <<32, 124, 32>>

C20_WitnessNone ==
    /\ tpc = "done" /\ tinput.input_types = <<>>
    /\ tresult = tinput.field_type

=============================================================================
